---- MODULE Spec2Model ----
(***************************************************************************)
(* Control logic of the WaveGlow training driver (train.py): start-up      *)
(* device/rank validation, checkpoint load and resume, the epoch / batch   *)
(* loop with its logging and checkpoint cadences, and the per-epoch        *)
(* evaluation pass.  One process (one rank) is modelled; every rank runs   *)
(* the same program.  Tensors, losses and weights are abstracted to the    *)
(* counters and flags the control flow depends on.                         *)
(***************************************************************************)
EXTENDS Integers, Sequences, FiniteSets, TLC

\* ---------------------------------------------------------------- bounds
MaxGpus == 2
MaxRank == 1
MaxEpochs == 2
MaxBatches == 2
MaxCadence == 3
MaxCkptIter == 4
MaxEvalBatches == 1
MaxBatchSize == 5

\* ------------------------------------------------------ program constants
LogEvery == 10
NumSamples == 5

NoValue == 0 - 1

Max(a, b) == IF a >= b THEN a ELSE b

VARIABLES cfg, pc, err, num_gpus, warned, seeded, distInit, constructed,
          wrapped, restored, samplers, outdir, loggers, iteration,
          epoch_offset, epoch, i, j, optSteps, reduces, processed, saved,
          trainScalars, evalScalars, audioLogged, evalDone

vars == <<cfg, pc, err, num_gpus, warned, seeded, distInit, constructed,
          wrapped, restored, samplers, outdir, loggers, iteration,
          epoch_offset, epoch, i, j, optSteps, reduces, processed, saved,
          trainScalars, evalScalars, audioLogged, evalDone>>

\* Parts of the state that a given step leaves alone.
setup == <<num_gpus, warned, seeded, distInit, constructed, wrapped,
           restored, samplers, outdir, loggers>>
loopv == <<epoch_offset, epoch, i, j>>
logs == <<optSteps, reduces, processed, saved, trainScalars, evalScalars,
          audioLogged, evalDone>>

\* ----------------------------------------------------- inputs of one run
rank == cfg.rank
group_name == cfg.group_name
epochs == cfg.epochs
nbatches == cfg.nbatches
iters_per_checkpoint == cfg.iters_per_checkpoint
with_tensorboard == cfg.with_tensorboard
checkpoint_path == cfg.checkpoint_path
batch_size == cfg.batch_size

CheckpointFiles ==
  [exists : {FALSE}, iteration : {0}] \cup
  [exists : {TRUE}, iteration : 0..MaxCkptIter]

Configs ==
  { c \in [detected : 1..MaxGpus,
           rank : 0..MaxRank,
           group_name : {"", "group"},
           epochs : 0..MaxEpochs,
           nbatches : 1..MaxBatches,
           iters_per_checkpoint : 1..MaxCadence,
           with_tensorboard : BOOLEAN,
           checkpoint_path : {"", "ckpt"},
           file : CheckpointFiles,
           batch_size : (NumSamples - 1)..MaxBatchSize,
           evalBatches : 0..MaxEvalBatches] :
      c.checkpoint_path = "" => c.file = [exists |-> FALSE, iteration |-> 0] }

\* ------------------------------------------------------- pure decisions
ParticipatingGpus_NoDowngrade(detected, group) == detected

ParticipatingGpus(detected, group) ==
  IF detected > 1 /\ group = "" THEN 1 ELSE detected

SingleGpuRankError_Negative(ngpus, r) == ngpus = 1 /\ r < 0

SingleGpuRankError(ngpus, r) == ngpus = 1 /\ r # 0

IsFile(path) == path = "ckpt" /\ cfg.file.exists

ResumeIteration_Stored(stored) == stored

ResumeIteration(stored) == stored + 1

EpochOffset_Previous(it, len) == Max(0, (it - 1) \div len)

EpochOffset(it, len) == Max(0, it \div len)

ShouldLogTrain(tb, r, it) == tb /\ r = 0 /\ it % LogEvery = 0

ShouldCheckpoint_AnyIteration(it, cadence, r) == r = 0

ShouldCheckpoint_SkipZero(it, cadence, r) ==
  it > 0 /\ it % cadence = 0 /\ r = 0

ShouldCheckpoint(it, cadence, r) == it % cadence = 0 /\ r = 0

Advance_Twice(it) == it + 2

Advance(it) == it + 1

Raise(name) == pc' = "raised" /\ err' = name

\* ---------------------------------------------------------------- Init
Init ==
  /\ cfg \in Configs
  /\ pc = "main"
  /\ err = ""
  /\ num_gpus = cfg.detected
  /\ warned = FALSE
  /\ seeded = FALSE
  /\ distInit = FALSE
  /\ constructed = FALSE
  /\ wrapped = FALSE
  /\ restored = FALSE
  /\ samplers = FALSE
  /\ outdir = FALSE
  /\ loggers = FALSE
  /\ iteration = 0
  /\ epoch_offset = NoValue
  /\ epoch = NoValue
  /\ i = 0
  /\ j = 0
  /\ optSteps = 0
  /\ reduces = 0
  /\ processed = <<>>
  /\ saved = <<>>
  /\ trainScalars = 0
  /\ evalScalars = 0
  /\ audioLogged = 0
  /\ evalDone = 0

\* ------------------------------------------------------------ start-up
DetectDevices ==
  /\ pc = "main"
  /\ num_gpus' = ParticipatingGpus(num_gpus, group_name)
  /\ warned' = (num_gpus > 1 /\ group_name = "")
  /\ pc' = "check_rank"
  /\ UNCHANGED <<cfg, err, seeded, distInit, constructed, wrapped, restored,
                 samplers, outdir, loggers, iteration, loopv, logs>>

CheckRank ==
  /\ pc = "check_rank"
  /\ IF SingleGpuRankError(num_gpus, rank)
       THEN Raise("Exception")
       ELSE pc' = "train" /\ err' = err
  /\ UNCHANGED <<cfg, setup, iteration, loopv, logs>>

\* ------------------------------------------------------ train(): set-up
Seed ==
  /\ pc = "train"
  /\ seeded' = TRUE
  /\ pc' = "init_distributed"
  /\ UNCHANGED <<cfg, err, num_gpus, warned, distInit, constructed, wrapped,
                 restored, samplers, outdir, loggers, iteration, loopv, logs>>

InitDistributed ==
  /\ pc = "init_distributed"
  /\ distInit' = (num_gpus > 1)
  /\ pc' = "build"
  /\ UNCHANGED <<cfg, err, num_gpus, warned, seeded, constructed, wrapped,
                 restored, samplers, outdir, loggers, iteration, loopv, logs>>

BuildModel ==
  /\ pc = "build"
  /\ constructed' = TRUE
  /\ wrapped' = (num_gpus > 1)
  /\ iteration' = 0
  /\ pc' = IF checkpoint_path # "" THEN "load_checkpoint" ELSE "data"
  /\ UNCHANGED <<cfg, err, num_gpus, warned, seeded, distInit, restored,
                 samplers, outdir, loggers, loopv, logs>>

LoadAssert_Unchecked ==
  /\ pc = "load_checkpoint"
  /\ pc' = "deserialize"
  /\ UNCHANGED <<cfg, err, setup, iteration, loopv, logs>>

LoadAssert ==
  /\ pc = "load_checkpoint"
  /\ IF IsFile(checkpoint_path)
       THEN pc' = "deserialize" /\ err' = err
       ELSE Raise("AssertionError")
  /\ UNCHANGED <<cfg, setup, iteration, loopv, logs>>

Deserialize ==
  /\ pc = "deserialize"
  /\ iteration' = cfg.file.iteration
  /\ restored' = TRUE
  /\ pc' = "resume"
  /\ UNCHANGED <<cfg, err, num_gpus, warned, seeded, distInit, constructed,
                 wrapped, samplers, outdir, loggers, loopv, logs>>

Resume ==
  /\ pc = "resume"
  /\ iteration' = ResumeIteration(iteration)
  /\ pc' = "data"
  /\ UNCHANGED <<cfg, err, setup, loopv, logs>>

\* DistributedSampler when several devices participate; DataLoader is then
\* given shuffle=True together with a sampler, which it rejects.
BuildLoaders ==
  /\ pc = "data"
  /\ samplers' = (num_gpus > 1)
  /\ IF num_gpus > 1
       THEN Raise("ValueError")
       ELSE pc' = "output" /\ err' = err
  /\ UNCHANGED <<cfg, num_gpus, warned, seeded, distInit, constructed,
                 wrapped, restored, outdir, loggers, iteration, loopv, logs>>

PrepareOutput ==
  /\ pc = "output"
  /\ outdir' = (rank = 0)
  /\ loggers' = (with_tensorboard /\ rank = 0)
  /\ pc' = "offset"
  /\ UNCHANGED <<cfg, err, num_gpus, warned, seeded, distInit, constructed,
                 wrapped, restored, samplers, iteration, loopv, logs>>

ComputeOffset ==
  /\ pc = "offset"
  /\ epoch_offset' = EpochOffset(iteration, nbatches)
  /\ epoch' = epoch_offset'
  /\ pc' = "epoch_head"
  /\ UNCHANGED <<cfg, err, setup, iteration, i, j, logs>>

\* ------------------------------------------------- train(): main loop
EpochHead ==
  /\ pc = "epoch_head"
  /\ IF epoch < epochs
       THEN pc' = "batch_head" /\ i' = 0
       ELSE pc' = "done" /\ i' = i
  /\ UNCHANGED <<cfg, err, setup, iteration, epoch_offset, epoch, j, logs>>

BatchHead ==
  /\ pc = "batch_head"
  /\ IF i < nbatches
       THEN pc' = "train_step" /\ j' = j
       ELSE pc' = "eval_head" /\ j' = 0
  /\ UNCHANGED <<cfg, err, setup, iteration, epoch_offset, epoch, i, logs>>

\* zero_grad, forward, loss, cross-device reduction, backward, optimizer
\* step, progress-bar description "Epoch {} Iter {}".
TrainStep ==
  /\ pc = "train_step"
  /\ reduces' = IF num_gpus > 1 THEN reduces + 1 ELSE reduces
  /\ optSteps' = optSteps + 1
  /\ processed' = Append(processed, iteration)
  /\ pc' = "train_log"
  /\ UNCHANGED <<cfg, err, setup, iteration, loopv, saved, trainScalars,
                 evalScalars, audioLogged, evalDone>>

TrainLog ==
  /\ pc = "train_log"
  /\ trainScalars' = IF ShouldLogTrain(with_tensorboard, rank, iteration)
                       THEN trainScalars + 1 ELSE trainScalars
  /\ pc' = "train_ckpt"
  /\ UNCHANGED <<cfg, err, setup, iteration, loopv, optSteps, reduces,
                 processed, saved, evalScalars, audioLogged, evalDone>>

TrainCkpt ==
  /\ pc = "train_ckpt"
  /\ saved' = IF ShouldCheckpoint(iteration, iters_per_checkpoint, rank)
                THEN Append(saved, iteration) ELSE saved
  /\ pc' = "train_incr"
  /\ UNCHANGED <<cfg, err, setup, iteration, loopv, optSteps, reduces,
                 processed, trainScalars, evalScalars, audioLogged, evalDone>>

TrainIncr ==
  /\ pc = "train_incr"
  /\ iteration' = Advance(iteration)
  /\ i' = i + 1
  /\ pc' = "batch_head"
  /\ UNCHANGED <<cfg, err, setup, epoch_offset, epoch, j, logs>>

\* ---------------------------------------------- train(): evaluation pass
EvalHead ==
  /\ pc = "eval_head"
  /\ pc' = IF j < cfg.evalBatches THEN "eval_batch" ELSE "eval_mean"
  /\ UNCHANGED <<cfg, err, setup, iteration, loopv, logs>>

EvalBatch ==
  /\ pc = "eval_batch"
  /\ j' = j + 1
  /\ pc' = "eval_head"
  /\ UNCHANGED <<cfg, err, setup, iteration, epoch_offset, epoch, i, logs>>

\* statistics.mean raises on an empty list of losses.
EvalMean ==
  /\ pc = "eval_mean"
  /\ IF with_tensorboard /\ rank = 0
       THEN IF j = 0
              THEN Raise("StatisticsError") /\ evalScalars' = evalScalars
              ELSE /\ evalScalars' = evalScalars + 1
                   /\ pc' = "eval_audio"
                   /\ err' = err
       ELSE pc' = "eval_audio" /\ err' = err /\ evalScalars' = evalScalars
  /\ UNCHANGED <<cfg, setup, iteration, loopv, optSteps, reduces, processed,
                 saved, trainScalars, audioLogged, evalDone>>

\* model.infer on the first evaluation batch, then NumSamples pairs of
\* samples written through logger_eval, which exists only when loggers.
EvalAudio ==
  /\ pc = "eval_audio"
  /\ IF j = 0
       THEN Raise("TypeError") /\ UNCHANGED <<audioLogged, evalDone, epoch>>
       ELSE IF ~loggers
         THEN Raise("NameError") /\ UNCHANGED <<audioLogged, evalDone, epoch>>
         ELSE IF batch_size < NumSamples
           THEN /\ Raise("IndexError")
                /\ audioLogged' = audioLogged + batch_size
                /\ UNCHANGED <<evalDone, epoch>>
           ELSE /\ audioLogged' = audioLogged + NumSamples
                /\ evalDone' = evalDone + 1
                /\ epoch' = epoch + 1
                /\ pc' = "epoch_head"
                /\ err' = err
  /\ UNCHANGED <<cfg, setup, iteration, epoch_offset, i, j, optSteps, reduces,
                 processed, saved, trainScalars, evalScalars>>

Next ==
  \/ DetectDevices
  \/ CheckRank
  \/ Seed
  \/ InitDistributed
  \/ BuildModel
  \/ LoadAssert
  \/ Deserialize
  \/ Resume
  \/ BuildLoaders
  \/ PrepareOutput
  \/ ComputeOffset
  \/ EpochHead
  \/ BatchHead
  \/ TrainStep
  \/ TrainLog
  \/ TrainCkpt
  \/ TrainIncr
  \/ EvalHead
  \/ EvalBatch
  \/ EvalMean
  \/ EvalAudio

Spec == Init /\ [][Next]_vars

TypeOK ==
  /\ cfg \in Configs
  /\ pc \in {"main", "check_rank", "train", "init_distributed", "build",
             "load_checkpoint", "deserialize", "resume", "data", "output",
             "offset", "epoch_head", "batch_head", "train_step", "train_log",
             "train_ckpt", "train_incr", "eval_head", "eval_batch",
             "eval_mean", "eval_audio", "done", "raised"}
  /\ iteration \in Nat
  /\ epoch_offset \in Nat \cup {NoValue}

\* ======================================================= properties
StoredIteration == cfg.file.iteration

Fresh == checkpoint_path = ""

SavedSet == {saved[k] : k \in 1..Len(saved)}

StartupRejected == pc = "raised" /\ err = "Exception"

\* Batches whose checkpoint decision has been taken.
Decided ==
  IF pc \in {"train_log", "train_ckpt"}
    THEN Len(processed) - 1
    ELSE Len(processed)

\* The evaluation set is non-empty and a batch holds enough samples.
EvalFeasible == cfg.evalBatches >= 1 /\ batch_size >= NumSamples

\* C1: in a run resumed from a checkpoint with stored iteration I, the first
\* processed training batch carries iteration I + 1 and no processed batch
\* carries an iteration less than or equal to I.
C1_ResumeAtNext ==
  (restored /\ Len(processed) >= 1) =>
    /\ processed[1] = StoredIteration + 1
    /\ \A k \in 1..Len(processed) : processed[k] > StoredIteration

C1_Witness ==
  /\ restored
  /\ StoredIteration >= 1
  /\ Len(processed) >= 2

\* C2: at the checkpoint decision of a processed batch a checkpoint is
\* written iff iteration mod iters_per_checkpoint = 0 and rank = 0; no other
\* step writes one, and a process whose rank is not 0 never writes one.
C2_CheckpointIff ==
  [][ /\ (pc = "train_ckpt" =>
            ((saved' = Append(saved, iteration)) <=>
               (iteration % iters_per_checkpoint = 0 /\ rank = 0)))
      /\ (saved' # saved =>
            pc = "train_ckpt" /\ saved' = Append(saved, iteration))
      /\ (rank # 0 => saved' = <<>>) ]_vars

C2_Witness ==
  /\ Len(saved) >= 1
  /\ Len(processed) > Len(saved) + 1
  /\ restored

\* C3 (as stated): on resume from stored iteration I with B batches per epoch
\* epoch_offset = floor(I / B) >= 0; without a checkpoint epoch_offset = 0.
C3_Original ==
  epoch_offset # NoValue =>
    /\ epoch_offset >= 0
    /\ (restored => epoch_offset = StoredIteration \div nbatches)
    /\ (Fresh => epoch_offset = 0)

\* C3 (amended): on resume from stored iteration I with B batches per epoch
\* epoch_offset = floor((I + 1) / B) >= 0, the epoch of the next iteration;
\* without a checkpoint epoch_offset = 0.
C3_OffsetOfNext ==
  epoch_offset # NoValue =>
    /\ epoch_offset >= 0
    /\ (restored => epoch_offset = (StoredIteration + 1) \div nbatches)
    /\ (Fresh => epoch_offset = 0)

C3_Witness ==
  /\ restored
  /\ epoch_offset # NoValue
  /\ epoch_offset >= 1
  /\ epoch_offset # StoredIteration \div nbatches

\* C4 (as stated): a fresh run on the coordinator that reaches DONE has
\* written checkpoints at exactly the positive multiples of N below E*B.
C4_Original ==
  (Fresh /\ rank = 0 /\ pc = "done") =>
    SavedSet = {k \in 1..(epochs * nbatches - 1) :
                  k % iters_per_checkpoint = 0}

\* C4 (amended): in a fresh run on the coordinator the checkpoints written so
\* far are, each exactly once, the multiples of N, zero included, among the
\* iterations 0..d-1 of the d batches whose checkpoint decision was taken;
\* a run that reaches DONE has d = E*B.
C4_Cadence ==
  (Fresh /\ rank = 0) =>
    /\ SavedSet = {k \in 0..(Decided - 1) : k % iters_per_checkpoint = 0}
    /\ Len(saved) = Cardinality(SavedSet)
    /\ (pc = "done" => Decided = epochs * nbatches)

C4_Witness ==
  /\ Fresh
  /\ rank = 0
  /\ pc = "done"
  /\ Len(saved) >= 2
  /\ Len(processed) > Len(saved)

\* C5: a fresh run whose evaluation set is non-empty is never stopped by an
\* error once start-up accepted its rank, whatever with_tensorboard is, and
\* at DONE has processed E*B batches and completed E evaluation passes
\* (stated here for the single-device runs, where it already fails).
C5_FreshRunCompletes ==
  (Fresh /\ EvalFeasible /\ cfg.detected = 1) =>
    /\ (pc = "raised" => err = "Exception")
    /\ (pc = "done" =>
          Len(processed) = epochs * nbatches /\ evalDone = epochs)

\* C6: with one participating device and a non-zero rank the program raises
\* at the rank check; nothing of train() has happened.
C6_RankRejected ==
  (pc \notin {"main", "check_rank"} /\ num_gpus = 1 /\ rank # 0) =>
    /\ pc = "raised"
    /\ err = "Exception"
    /\ ~seeded
    /\ ~constructed
    /\ ~restored
    /\ ~outdir
    /\ ~loggers
    /\ saved = <<>>
    /\ processed = <<>>
    /\ optSteps = 0

C6_Witness ==
  /\ StartupRejected
  /\ cfg.detected > 1
  /\ warned

\* C7 (as stated): several devices detected and no group name: start-up never
\* aborts, and the run is single-device.
C7_Original ==
  (cfg.detected > 1 /\ group_name = "" /\ pc # "main") =>
    /\ num_gpus = 1
    /\ ~StartupRejected

\* C7 (amended): several devices detected and no group name: the device count
\* becomes 1 with a warning and nothing distributed is ever engaged; when the
\* rank is 0 start-up does not abort and train() is entered.
C7_Downgrade ==
  (cfg.detected > 1 /\ group_name = "" /\ pc # "main") =>
    /\ num_gpus = 1
    /\ warned
    /\ ~distInit
    /\ ~wrapped
    /\ ~samplers
    /\ reduces = 0
    /\ (rank = 0 => ~StartupRejected)
    /\ (rank = 0 /\ pc \notin {"check_rank", "train"} => seeded)

C7_Witness ==
  /\ cfg.detected > 1
  /\ group_name = ""
  /\ rank = 0
  /\ Len(processed) >= 1
  /\ pc = "done"

\* C8: the iteration counter never decreases; the step that closes a
\* processed batch, taken after its optimizer step and checkpoint decision,
\* adds exactly one; every step other than that and the checkpoint restore
\* leaves it unchanged.
C8_IterationFrame ==
  [][ /\ iteration' >= iteration
      /\ (pc = "train_incr" =>
            /\ iteration' = iteration + 1
            /\ optSteps = Len(processed)
            /\ processed[Len(processed)] = iteration)
      /\ (pc' = "train_incr" => pc = "train_ckpt")
      /\ (pc' = "train_ckpt" => pc = "train_log")
      /\ (pc' = "train_log" => pc = "train_step" /\ optSteps' = optSteps + 1)
      /\ (pc \notin {"train_incr", "deserialize", "resume"} =>
            iteration' = iteration) ]_vars

C8_Witness ==
  /\ evalDone >= 1
  /\ Len(saved) >= 1
  /\ trainScalars >= 1
  /\ Len(processed) >= 2
  /\ iteration = processed[Len(processed)] + 1

\* C9: a non-empty checkpoint_path that is not an existing file stops the
\* run at the assertion of load_checkpoint: nothing was restored, no batch
\* was processed, no checkpoint was written, and no step follows.
C9_MissingCheckpoint ==
  /\ []( ( /\ checkpoint_path # ""
           /\ ~cfg.file.exists
           /\ ~StartupRejected
           /\ pc \notin {"main", "check_rank", "train", "init_distributed",
                         "build", "load_checkpoint"} ) =>
           /\ pc = "raised"
           /\ err = "AssertionError"
           /\ ~restored
           /\ iteration = 0
           /\ optSteps = 0
           /\ processed = <<>>
           /\ saved = <<>> )
  /\ [][pc # "raised"]_vars

C9_Witness ==
  /\ pc = "raised"
  /\ err = "AssertionError"
  /\ constructed
  /\ ~restored

\* C10: a resumed run that computed its epoch_offset and has ended has
\* processed (E - epoch_offset) * B batches and its counter is
\* I + 1 + (E - epoch_offset) * B; with epoch_offset >= E it processed no
\* batch and ran no evaluation pass.
C10_FullEpochs ==
  (/\ restored
   /\ EvalFeasible
   /\ epoch_offset # NoValue
   /\ pc \in {"done", "raised"}) =>
    IF epoch_offset >= epochs
      THEN processed = <<>> /\ evalDone = 0 /\ pc = "done"
      ELSE /\ Len(processed) = (epochs - epoch_offset) * nbatches
           /\ iteration =
                StoredIteration + 1 + (epochs - epoch_offset) * nbatches

====
